---- MODULE Spec2Model ----
(***************************************************************************)
(* Model of the batch translation queue of the novel dashboard             *)
(* (startBulkTranslation / togglePause / stopBulk) and of the translator   *)
(* wrapper translateChapterWithGlossary.                                   *)
(*                                                                         *)
(* JavaScript runs each handler to its next await without interruption, so *)
(* one action is one such stretch of code: a click handler, or the         *)
(* continuation of a run's async loop after one of its awaits settles.     *)
(***************************************************************************)
EXTENDS Integers, Sequences, FiniteSets, TLC

\* ------------------------------------------------------------------ bounds
NumChapters == 3
MaxRuns == 2
MaxServiceFaults == 1
MaxStoreFaults == 1
MaxGlossary == 2
MaxCandidates == 3
MaxExisting == 1
MaxScans == 1
MaxEdits == 1
MaxReaderEdits == 2
MaxReaderAdds == 1
MaxNavigations == 2
MaxOrder == 4

\* Numbers of the source.
SampleEdge == 3
SnippetLength == 100

ChapterIds == 1..NumChapters
RunIds == 1..MaxRuns

\* ------------------------------------------------------------------ values
\* An absent optional field (Chapter.translatedContent?: string).
Undefined == "<undefined>"

\* JavaScript truthiness of an optional string: undefined and '' are falsy.
Truthy(s) == s /= Undefined /\ s /= ""

\* The two strings translateChapterWithGlossary returns instead of failing.
FailedSentinel == "Translation failed."
ErrorSentinel == "Error generating translation. Please check API Key or quota."

\* Chapter.content and Chapter.title of the chapter with id c.
ContentOf(c) == "text:" \o ToString(c)
TitleOf(c) == "title:" \o ToString(c)

\* What the external service answers for a chapter text when it works.
ArabicOf(content) == "ar(" \o content \o ")"

\* ------------------------------------------------------------------ state
VARIABLES
  chapters,          \* db.chapters: id -> [translatedContent, lastTranslated]
  isBulkTranslating, \* React state
  bulkPaused,        \* React state
  bulkPausedRef,     \* ref mirrored from bulkPaused by the effect
  stopSignal,        \* ref shared by every run of the component
  bulkProgress,      \* React state {current, total, chapterName}
  nRuns,             \* number of startBulkTranslation calls that began a run
  pc,                \* per run: where its async function is suspended
  idx,               \* per run: the loop variable i (0-based)
  queue,             \* per run: the snapshot `untranslated`
  pending,           \* per run: `result` between the two awaits of the try
  oracle,            \* environment: the service's behaviour per chapter
  storeFails,        \* environment: chapters whose db update rejects
  callLog,           \* history: chapters the run handed to the translator
  saved,             \* history: chapters the run wrote
  progressLog,       \* history: values the run passed to setBulkProgress
  stopPhase,         \* history: pc of the run when stop was first requested
  stopIdx,           \* history: Len(callLog) of the run at that moment
  exit,              \* history: how the run's loop ended
  everPolled,        \* history: the run waited in the pause loop
  tpc,               \* translator call: "ready" or "returned"
  tContent,          \* translator call: argument content
  tGlossary,         \* translator call: argument glossary
  tResp,             \* translator call: what the service does
  tOut,              \* translator call: outcome seen by the caller
  runGlossary,       \* per run: the local `glossary` of startBulkTranslation
  finishAlerts,      \* history: per run, "finished" alerts shown
  promptLog,         \* history: per run, the prompts sent to the service, each
                     \* with the glossary table of that moment
  returned,          \* history: per run, translator calls that have settled
  atStart,           \* history: per run, the store when the run was started
  cooldowns,         \* history: per run, the items followed by a cooldown wait
  glossary,          \* db.glossary: the novel's Term rows, in id order
  present,           \* db.chapters: the ids of the novel's stored chapters
  chapterOrder,      \* db.chapters: Chapter.order of each stored chapter
  nEdits,            \* number of glossary edits made in the glossary view
  isScanning,        \* React state
  scanProgress,      \* React state: the label shown while scanning
  scanPc,            \* where runDeepScan is suspended
  nScans,            \* number of runDeepScan calls that began a scan
  extractorResp,     \* environment: what the extractor service answers
  rawTerms,          \* runDeepScan local
  existingTerms,     \* runDeepScan local
  uniqueNewTerms,    \* runDeepScan local
  termIdx,           \* runDeepScan local: position of the for-of loop
  completed,         \* runDeepScan local: terms handled so far
  translation,       \* runDeepScan local: the current term's translation
  scanInserted,      \* history: the rows the latest scan added, in order
  sampleChapters,    \* runDeepScan local: the sampled chapters
  combinedText,      \* runDeepScan local: the sample's contents, joined
  rawIsArray,        \* runDeepScan local: whether rawTerms is an array
  snippet,           \* runDeepScan local: the current term's context
  termThrew,         \* history: per term handled, whether its request threw
  glossaryAtScan,    \* history: the glossary when the scan was started
  addRejected,       \* history: whether an insert of the scan was rejected
  scanLog,           \* history: the labels the scan passed to setScanProgress
  view,              \* App state: viewState.view
  chapterId,         \* App state: viewState.chapterId (0: none)
  readerChapter,     \* Reader: `chapter`, the row its live query last delivered
  editedTranslation, \* Reader state: the text in the translation editor
  isTranslating,     \* Reader state
  readerPc,          \* where handleTranslate is suspended
  readerCall,        \* handleTranslate: the chapter, glossary and result it holds
  saveQueue,         \* saveManualEdits calls whose update has not settled
  nReaderEdits,      \* number of edit events in the translation editor
  nReaderAdds,       \* number of terms added from a selection
  lastEdit,          \* history: the latest edit event (chapter and value)
  readerInserted,    \* history: the rows addToGlossary added, in order
  wroteAhead,        \* history: <<run, chapter>> for each chapter the Reader wrote
                     \* while it was queued in the run and not yet dispatched
  novelDeleted,      \* history: handleDelete's transaction has committed
  navPc,             \* where handleReaderNavigate is suspended
  navCall,           \* handleReaderNavigate: direction, current and target order
  nNavigations       \* number of handleReaderNavigate calls

uiVars == <<isBulkTranslating, bulkPaused, bulkPausedRef, stopSignal, bulkProgress>>
runVars == <<nRuns, pc, idx, queue, pending, runGlossary>>
envVars == <<oracle, storeFails>>
histVars == <<callLog, saved, progressLog, stopPhase, stopIdx, exit, everPolled,
              finishAlerts, promptLog, returned, atStart, cooldowns>>
batchVars == <<chapters, uiVars, runVars, envVars, histVars>>
tVars == <<tpc, tContent, tGlossary, tResp, tOut>>
scanVars == <<isScanning, scanProgress, scanPc, nScans, extractorResp, rawTerms,
              existingTerms, uniqueNewTerms, termIdx, completed, translation,
              scanInserted, sampleChapters, combinedText, rawIsArray, snippet,
              termThrew, glossaryAtScan, addRejected, scanLog>>
storeVars == <<present, chapterOrder, nEdits>>
viewVars == <<view, chapterId, novelDeleted, navPc, navCall, nNavigations>>
readerVars == <<readerChapter, editedTranslation, isTranslating, readerPc,
                readerCall, saveQueue, nReaderEdits, nReaderAdds, lastEdit,
                readerInserted, wroteAhead>>
appVars == <<viewVars, readerVars>>
\* What no step of a batch run changes.
offBatchVars == <<tVars, scanVars, glossary, storeVars, appVars>>
vars == <<batchVars, tVars, scanVars, glossary, storeVars, appVars>>

\* ------------------------------------------------- the external service
\* ai.models.generateContent either rejects or resolves to a response whose
\* .text may be missing or empty.
ServiceKinds == {"ok", "empty", "throw"}

ServiceResponse(kind, content) ==
  CASE kind = "ok" -> [throws |-> FALSE, text |-> ArabicOf(content)]
    [] kind = "empty" -> [throws |-> FALSE, text |-> ""]
    [] kind = "undefined" -> [throws |-> FALSE, text |-> Undefined]
    [] kind = "throw" -> [throws |-> TRUE, text |-> Undefined]

\* The number of chapters for which the service fails.
ServiceFaults(o) == Cardinality({c \in DOMAIN o : o[c] /= "ok"})

\* The service produced a translation.
ServiceSucceeded(resp) == ~resp.throws /\ Truthy(resp.text)

\* translateChapterWithGlossary, from the service's answer to what the caller
\* gets: `raised` tells whether the promise rejects, `value` is the string.
TranslateOutcome(resp) ==
  IF resp.throws
    THEN [raised |-> FALSE, value |-> ErrorSentinel]
    ELSE [raised |-> FALSE,
          value |-> IF Truthy(resp.text) THEN resp.text ELSE FailedSentinel]

\* ------------------------------------------------------- the chapter store
\* Variant of Before: the order field is ignored.
BeforeById(a, b) == a < b

\* Chapter a comes before chapter b in sortBy('order'): by order, and among
\* equal orders as the rows were read, by id.
Before(a, b) ==
  \/ chapterOrder[a] < chapterOrder[b]
  \/ chapterOrder[a] = chapterOrder[b] /\ a < b

Rank(c) == Cardinality({d \in present : Before(d, c)}) + 1

\* db.chapters.where({ novelId }).sortBy('order'): the ids in order.
ChaptersByOrder ==
  [i \in 1..Cardinality(present) |-> CHOOSE c \in present : Rank(c) = i]

\* Variant of IsUntranslated: every chapter is taken.
IsUntranslatedAny(c) == c \in ChapterIds

\* chapters.filter(c => !c.translatedContent), in order.
IsUntranslated(c) == ~Truthy(chapters[c].translatedContent)
Untranslated == SelectSeq(ChaptersByOrder, IsUntranslated)

\* Variant of UpdateChapter: the update leaves lastTranslated out.
UpdateChapterNoDate(store, c, result) ==
  [store EXCEPT ![c] = [translatedContent |-> result, lastTranslated |-> store[c].lastTranslated]]

\* db.chapters.update(id, { translatedContent: result, lastTranslated: new Date() })
UpdateChapter(store, c, result) ==
  [store EXCEPT ![c] = [translatedContent |-> result, lastTranslated |-> TRUE]]

\* A chapter as bulkAddChapters stores it: no translatedContent, no lastTranslated.
NewChapter == [translatedContent |-> Undefined, lastTranslated |-> FALSE]

\* ------------------------------------------------------------ the run loop
\* The runs whose async function has started and not returned.
LiveRuns == {r \in RunIds : pc[r] \notin {"idle", "done"}}

\* The chapter `untranslated[i]` of run r.
ItemOf(r, i) == queue[r][i + 1]

\* Leaving the for loop: setIsBulkTranslating(false) and the alert.
Finish(r, how) ==
  /\ pc' = [pc EXCEPT ![r] = "done"]
  /\ exit' = [exit EXCEPT ![r] = how]
  /\ isBulkTranslating' = FALSE
  /\ finishAlerts' = [finishAlerts EXCEPT ![r] = @ + 1]
  /\ UNCHANGED <<idx, bulkProgress, progressLog, callLog, everPolled, promptLog>>

\* Variant of ProgressOf: the loop variable is reported as it is (0-based).
ProgressOfZeroBased(r, i) ==
  [current |-> i, total |-> Len(queue[r]), chapterName |-> TitleOf(ItemOf(r, i))]

\* The value passed to setBulkProgress before item i is translated.
ProgressOf(r, i) ==
  [current |-> i + 1, total |-> Len(queue[r]), chapterName |-> TitleOf(ItemOf(r, i))]

\* Variant of GlossaryString: only the originals are listed.
GlossaryStringBare(terms) ==
  [i \in 1..Len(terms) |-> terms[i].original]

\* glossary.map(g => `${g.original} -> ${g.translation}`), joined by '\n'
\* (kept as the sequence of lines).
GlossaryString(terms) ==
  [i \in 1..Len(terms) |-> terms[i].original \o " -> " \o terms[i].translation]

\* Variant of GlossaryFor: the glossary is read again for every item.
GlossaryForNow(r) == glossary

\* The `glossary` argument run r passes to translateChapterWithGlossary.
GlossaryFor(r) == runGlossary[r]

\* The parts of the prompt that depend on the arguments: the glossary lines
\* and the chapter content.
Prompt(content, terms) ==
  [glossaryString |-> GlossaryString(terms), content |-> content]

\* The store at the click on Start: the chapters, those with a translation
\* and the glossary; and whether an earlier run has run through its whole
\* queue with no stop requested.
StoreNow ==
  [present |-> present,
   translated |-> {c \in present : Truthy(chapters[c].translatedContent)},
   glossary |-> glossary,
   completedBefore |-> \E q \in RunIds :
       pc[q] = "done" /\ exit[q] = "exhausted" /\ stopPhase[q] = "none"]

NoStore ==
  [present |-> {}, translated |-> {}, glossary |-> <<>>, completedBefore |-> FALSE]

\* setBulkProgress for item i, then the call of translateChapterWithGlossary.
Dispatch(r, i) ==
  /\ pc' = [pc EXCEPT ![r] = "translating"]
  /\ idx' = [idx EXCEPT ![r] = i]
  /\ bulkProgress' = ProgressOf(r, i)
  /\ progressLog' = [progressLog EXCEPT ![r] = Append(@, ProgressOf(r, i))]
  /\ callLog' = [callLog EXCEPT ![r] = Append(@, ItemOf(r, i))]
  /\ promptLog' = [promptLog EXCEPT ![r] =
       Append(@, [prompt |-> Prompt(ContentOf(ItemOf(r, i)), GlossaryFor(r)),
                  table |-> glossary])]
  /\ UNCHANGED <<isBulkTranslating, exit, everPolled, finishAlerts>>

\* One round of the pause loop: await a 500 ms timer.
WaitPaused(r, i) ==
  /\ pc' = [pc EXCEPT ![r] = "polling"]
  /\ idx' = [idx EXCEPT ![r] = i]
  /\ everPolled' = [everPolled EXCEPT ![r] = TRUE]
  /\ UNCHANGED <<bulkProgress, progressLog, callLog, isBulkTranslating, exit,
                 finishAlerts, promptLog>>

\* Variant of MustWait: the pause flag as it was when the run started.
MustWaitAtStart == stopSignal = FALSE /\ FALSE

\* The condition of the pause loop.
MustWait == stopSignal = FALSE /\ bulkPausedRef

\* The top of the for loop with loop variable i: the loop condition, the stop
\* check, the pause loop, then the dispatch of item i.
EnterIteration(r, i) ==
  IF ~(i < Len(queue[r])) THEN Finish(r, "exhausted")
  ELSE IF stopSignal THEN Finish(r, "break")
  ELSE IF MustWait THEN WaitPaused(r, i)
  ELSE Dispatch(r, i)

\* ----------------------------------------------------------------- handlers
\* Variant of StartBulkTranslation: the pause flag is left as it was.
StartKeepsPause ==
  /\ ~isBulkTranslating
  /\ nRuns < MaxRuns
  /\ Len(Untranslated) /= 0
  /\ LET r == nRuns + 1
         first == [current |-> 0, total |-> Len(Untranslated), chapterName |-> ""]
     IN /\ nRuns' = r
        /\ isBulkTranslating' = TRUE
        /\ UNCHANGED <<bulkPaused, bulkPausedRef>>
        /\ stopSignal' = FALSE
        /\ bulkProgress' = first
        /\ progressLog' = [progressLog EXCEPT ![r] = <<first>>]
        /\ queue' = [queue EXCEPT ![r] = Untranslated]
        /\ pc' = [pc EXCEPT ![r] = "loading"]
        /\ runGlossary' = [runGlossary EXCEPT ![r] = glossary]
        /\ atStart' = [atStart EXCEPT ![r] = StoreNow]
  /\ UNCHANGED <<chapters, idx, pending, envVars, callLog, saved, stopPhase,
                 stopIdx, exit, everPolled, finishAlerts, promptLog, returned,
                 cooldowns, offBatchVars>>

\* Click on "Start Batch Translation" (shown while !isBulkTranslating), up to
\* the await of the glossary load.
StartBulkTranslation ==
  /\ ~isBulkTranslating
  /\ nRuns < MaxRuns
  /\ Len(Untranslated) /= 0
  /\ LET r == nRuns + 1
         first == [current |-> 0, total |-> Len(Untranslated), chapterName |-> ""]
     IN /\ nRuns' = r
        /\ isBulkTranslating' = TRUE
        /\ bulkPaused' = FALSE
        /\ bulkPausedRef' = FALSE
        /\ stopSignal' = FALSE
        /\ bulkProgress' = first
        /\ progressLog' = [progressLog EXCEPT ![r] = <<first>>]
        /\ queue' = [queue EXCEPT ![r] = Untranslated]
        /\ pc' = [pc EXCEPT ![r] = "loading"]
        /\ runGlossary' = [runGlossary EXCEPT ![r] = glossary]
        /\ atStart' = [atStart EXCEPT ![r] = StoreNow]
  /\ UNCHANGED <<chapters, idx, pending, envVars, callLog, saved, stopPhase,
                 stopIdx, exit, everPolled, finishAlerts, promptLog, returned,
                 cooldowns, offBatchVars>>

\* Click on Pause / Resume (shown while isBulkTranslating); the effect copies
\* the new state into bulkPausedRef when the component re-renders.
TogglePause ==
  /\ isBulkTranslating
  /\ bulkPaused' = ~bulkPaused
  /\ bulkPausedRef' = ~bulkPaused
  /\ UNCHANGED <<chapters, isBulkTranslating, stopSignal, bulkProgress, runVars,
                 envVars, histVars, offBatchVars>>

\* Click on Stop (shown while isBulkTranslating).
StopBulk ==
  /\ isBulkTranslating
  /\ stopSignal' = TRUE
  /\ isBulkTranslating' = FALSE
  /\ stopPhase' = [r \in RunIds |->
        IF r \in LiveRuns /\ stopPhase[r] = "none" THEN pc[r] ELSE stopPhase[r]]
  /\ stopIdx' = [r \in RunIds |->
        IF r \in LiveRuns /\ stopPhase[r] = "none" THEN Len(callLog[r]) ELSE stopIdx[r]]
  /\ UNCHANGED <<chapters, bulkPaused, bulkPausedRef, bulkProgress, runVars,
                 envVars, callLog, saved, progressLog, exit, everPolled,
                 finishAlerts, promptLog, returned, atStart, cooldowns, offBatchVars>>

\* --------------------------------------------- continuations of the run loop
\* The glossary load resolves: the loop starts with i = 0.
GlossaryLoaded(r) ==
  /\ pc[r] = "loading"
  /\ EnterIteration(r, 0)
  /\ UNCHANGED <<chapters, bulkPaused, bulkPausedRef, stopSignal, nRuns, queue,
                 pending, envVars, saved, stopPhase, stopIdx, returned,
                 runGlossary, atStart, cooldowns, offBatchVars>>

\* The glossary load rejects: the await at the top of startBulkTranslation is
\* outside the try block, so the function ends there with a rejected promise.
GlossaryLoadRejects(r) ==
  /\ pc[r] = "loading"
  /\ pc' = [pc EXCEPT ![r] = "failed"]
  /\ UNCHANGED <<chapters, uiVars, nRuns, idx, queue, pending, runGlossary,
                 envVars, histVars, offBatchVars>>

\* Variant of PollWake: leaving the pause loop moves on to the next item.
PollWakeSkips(r) ==
  /\ pc[r] = "polling"
  /\ ~MustWait
  /\ EnterIteration(r, idx[r] + 1)
  /\ UNCHANGED <<chapters, bulkPaused, bulkPausedRef, stopSignal, nRuns, queue,
                 pending, envVars, saved, stopPhase, stopIdx, returned,
                 runGlossary, atStart, cooldowns, offBatchVars>>

\* The 500 ms timer of the pause loop fires and the loop condition is false:
\* the code after the loop runs.
PollWake(r) ==
  /\ pc[r] = "polling"
  /\ ~MustWait
  /\ Dispatch(r, idx[r])
  /\ UNCHANGED <<chapters, bulkPaused, bulkPausedRef, stopSignal, nRuns, queue,
                 pending, envVars, saved, stopPhase, stopIdx, returned,
                 runGlossary, atStart, cooldowns, offBatchVars>>

\* Variant of TranslateReturn: a failure of the service ends the whole run.
TranslateReturnAborts(r) ==
  /\ pc[r] = "translating"
  /\ returned' = [returned EXCEPT ![r] = @ + 1]
  /\ LET c == ItemOf(r, idx[r])
         resp == ServiceResponse(oracle[c], ContentOf(c))
     IN IF ~ServiceSucceeded(resp)
          THEN /\ Finish(r, "error")
               /\ UNCHANGED pending
          ELSE /\ pc' = [pc EXCEPT ![r] = "saving"]
               /\ pending' = [pending EXCEPT ![r] = resp.text]
               /\ UNCHANGED <<idx, bulkProgress, progressLog, callLog,
                              isBulkTranslating, exit, everPolled, finishAlerts,
                              promptLog>>
  /\ UNCHANGED <<chapters, bulkPaused, bulkPausedRef, stopSignal, nRuns, queue,
                 envVars, saved, stopPhase, stopIdx, runGlossary, atStart, cooldowns,
                 offBatchVars>>

\* translateChapterWithGlossary settles.
TranslateReturn(r) ==
  /\ pc[r] = "translating"
  /\ returned' = [returned EXCEPT ![r] = @ + 1]
  /\ LET c == ItemOf(r, idx[r])
         out == TranslateOutcome(ServiceResponse(oracle[c], ContentOf(c)))
     IN IF out.raised
          THEN /\ EnterIteration(r, idx[r] + 1)
               /\ UNCHANGED pending
          ELSE /\ pc' = [pc EXCEPT ![r] = "saving"]
               /\ pending' = [pending EXCEPT ![r] = out.value]
               /\ UNCHANGED <<idx, bulkProgress, progressLog, callLog,
                              isBulkTranslating, exit, everPolled, finishAlerts,
                              promptLog>>
  /\ UNCHANGED <<chapters, bulkPaused, bulkPausedRef, stopSignal, nRuns, queue,
                 envVars, saved, stopPhase, stopIdx, runGlossary, atStart, cooldowns,
                 offBatchVars>>

\* db.chapters.update resolves: the cooldown timer starts.
UpdateResolves(r) ==
  /\ pc[r] = "saving"
  /\ ItemOf(r, idx[r]) \notin storeFails
  /\ chapters' = IF ItemOf(r, idx[r]) \in present
                    THEN UpdateChapter(chapters, ItemOf(r, idx[r]), pending[r])
                    ELSE chapters
  /\ saved' = [saved EXCEPT ![r] = @ \cup {ItemOf(r, idx[r])}]
  /\ pc' = [pc EXCEPT ![r] = "cooldown"]
  /\ cooldowns' = [cooldowns EXCEPT ![r] = @ \cup {idx[r] + 1}]
  /\ UNCHANGED <<uiVars, nRuns, idx, queue, pending, envVars, callLog,
                 progressLog, stopPhase, stopIdx, exit, everPolled, finishAlerts,
                 promptLog, returned, runGlossary, atStart, offBatchVars>>

\* db.chapters.update rejects: the catch block logs and the loop goes on.
UpdateRejects(r) ==
  /\ pc[r] = "saving"
  /\ ItemOf(r, idx[r]) \in storeFails
  /\ EnterIteration(r, idx[r] + 1)
  /\ UNCHANGED <<chapters, bulkPaused, bulkPausedRef, stopSignal, nRuns, queue,
                 pending, envVars, saved, stopPhase, stopIdx, returned,
                 runGlossary, atStart, cooldowns, offBatchVars>>

\* Variant of CooldownDone: the loop variable is not advanced.
CooldownDoneRepeats(r) ==
  /\ pc[r] = "cooldown"
  /\ EnterIteration(r, idx[r])
  /\ UNCHANGED <<chapters, bulkPaused, bulkPausedRef, stopSignal, nRuns, queue,
                 pending, envVars, saved, stopPhase, stopIdx, returned,
                 runGlossary, atStart, cooldowns, offBatchVars>>

\* The 1000 ms cooldown timer fires.
CooldownDone(r) ==
  /\ pc[r] = "cooldown"
  /\ EnterIteration(r, idx[r] + 1)
  /\ UNCHANGED <<chapters, bulkPaused, bulkPausedRef, stopSignal, nRuns, queue,
                 pending, envVars, saved, stopPhase, stopIdx, returned,
                 runGlossary, atStart, cooldowns, offBatchVars>>

\* ------------------------------------------------ one translator call
\* Glossary terms a call may receive (Term.original, Term.translation).
Terms == {[original |-> "lingqi", translation |-> "energy"],
          [original |-> "Zhang San", translation |-> "zhang"]}

Glossaries == UNION {[1..n -> Terms] : n \in 0..MaxGlossary}

\* Everything the service may do with one request for `content`: reject, or
\* resolve with a missing, empty or arbitrary text.
TResponses(content) ==
  {[throws |-> TRUE, text |-> Undefined]}
    \cup {[throws |-> FALSE, text |-> t] :
            t \in {Undefined, "", ArabicOf(content), FailedSentinel, ErrorSentinel}}

\* A call of translateChapterWithGlossary(content, glossary) settles.
TranslateCall ==
  /\ tpc = "ready"
  /\ tpc' = "returned"
  /\ tOut' = TranslateOutcome(tResp)
  /\ UNCHANGED <<tContent, tGlossary, tResp, batchVars, scanVars, glossary, storeVars,
                 appVars>>

\* ------------------------------------------------------------ deep scan
\* Source-language terms the extractor may name or the glossary may hold.
Originals == {"Zhang San", "ZHANG SAN", "lingqi"}

\* String.prototype.toLowerCase over the texts above.
ToLowerCase(s) ==
  CASE s = "Zhang San" -> "zhang san"
    [] s = "ZHANG SAN" -> "zhang san"
    [] OTHER -> s

OtherCategory == "Other"

\* What an element of a parsed answer may be besides a Partial<Term>: null,
\* or an object whose original is a number.
NullValue == "<null>"
NumberValue == "<number>"
NullElement == [original |-> NullValue, category |-> NullValue]
NumberedElement == [original |-> NumberValue, category |-> "Person"]

\* Partial<Term> objects of an extractor answer: either field may be missing.
WellFormed == [original : Originals \cup {"", Undefined},
               category : {"Person", Undefined}]

Candidates == WellFormed \cup {NullElement, NumberedElement}

CandidateLists == UNION {[1..n -> Candidates] : n \in 0..MaxCandidates}

\* Rows the glossary may hold before a scan.
ExistingRows == [original : {"ZHANG SAN", "lingqi"}, translation : {"old"},
                 category : {OtherCategory}, isLocked : BOOLEAN]

ExistingGlossaries == UNION {[1..n -> ExistingRows] : n \in 0..MaxExisting}

\* The answer of a service that names no term.
NoAnswer == [throws |-> FALSE, kind |-> "array", terms |-> <<>>]

\* What the extractor service may do: reject, or answer with no text, with
\* text that is not JSON, with JSON that is not an array, or with a list.
ExtractorResponses ==
  {[throws |-> TRUE, kind |-> "array", terms |-> <<>>]}
    \cup {[throws |-> FALSE, kind |-> k, terms |-> <<>>] :
            k \in {"missing", "unparseable", "object"}}
    \cup {[throws |-> FALSE, kind |-> "array", terms |-> l] : l \in CandidateLists}

\* extractTermsFromText: JSON.parse(response.text || "[]"), or [] when the
\* call or the parse throws.
ExtractOutcome(resp) ==
  IF resp.throws \/ resp.kind \in {"missing", "unparseable"}
    THEN [isArray |-> TRUE, items |-> <<>>]
    ELSE [isArray |-> resp.kind = "array", items |-> resp.terms]

\* A service text is kept as its pieces: blanks, quote marks and a body.
Blank == " "
Quote == "\""
IsQuote(x) == x = Quote \/ x = "'"

RECURSIVE Join(_)
Join(pieces) ==
  IF pieces = <<>> THEN "" ELSE Head(pieces) \o Join(Tail(pieces))

RECURSIVE TrimStart(_)
TrimStart(pieces) ==
  IF pieces /= <<>> /\ Head(pieces) = Blank THEN TrimStart(Tail(pieces)) ELSE pieces

RECURSIVE TrimEnd(_)
TrimEnd(pieces) ==
  IF pieces /= <<>> /\ pieces[Len(pieces)] = Blank
    THEN TrimEnd(SubSeq(pieces, 1, Len(pieces) - 1))
    ELSE pieces

Trim(pieces) == TrimEnd(TrimStart(pieces))

\* replace(/^["']|["']$/g, ''): one quote mark off each end.
StripQuotes(pieces) ==
  LET front == IF pieces /= <<>> /\ IsQuote(Head(pieces)) THEN Tail(pieces) ELSE pieces
  IN IF front /= <<>> /\ IsQuote(front[Len(front)])
       THEN SubSeq(front, 1, Len(front) - 1)
       ELSE front

\* response.text of an answer that carries no text.
MissingText == <<Undefined>>

\* What the term-translation service may do with one request for `term`.
TermResponses(term) ==
  {[throws |-> TRUE, text |-> MissingText]}
    \cup {[throws |-> FALSE, text |-> t] :
            t \in {MissingText, <<>>, <<Blank>>, <<ArabicOf(term)>>,
                   <<Quote, ArabicOf(term), Quote>>,
                   <<Blank, ArabicOf(term), Blank>>}}

\* Variant of FindArabicTranslationForTerm: nothing stands in for a failed
\* request.
FindArabicTranslationNoFallback(resp, term) ==
  IF resp.throws \/ resp.text = MissingText \/ Trim(resp.text) = <<>> THEN ""
  ELSE Join(StripQuotes(Trim(resp.text)))

\* findArabicTranslationForTerm: the cleaned answer, or the term on a throw.
FindArabicTranslationForTerm(resp, term) ==
  IF resp.throws THEN term
  ELSE IF resp.text = MissingText \/ Trim(resp.text) = <<>> THEN ""
  ELSE Join(StripQuotes(Trim(resp.text)))

\* new Set(existingTerms.map(t => t.original.toLowerCase()))
ExistingOriginals(existing) ==
  {ToLowerCase(existing[i].original) : i \in 1..Len(existing)}

\* The same test without folding the candidate's case.
IsNewTermExact(t, existing) ==
  Truthy(t.original) /\ t.original \notin ExistingOriginals(existing)

\* t.original && !existingOriginals.has(t.original.toLowerCase())
IsNewTerm(t, existing) ==
  Truthy(t.original) /\ ToLowerCase(t.original) \notin ExistingOriginals(existing)

\* Variant of UniqueNewTerms: the kept candidates come out last first.
UniqueNewTermsReversed(raw, existing) ==
  LET Keep(t) == IsNewTerm(t, existing)
      kept == SelectSeq(raw, Keep)
  IN [i \in 1..Len(kept) |-> kept[Len(kept) + 1 - i]]

\* rawTerms.filter(...)
UniqueNewTerms(raw, existing) ==
  LET Keep(t) == IsNewTerm(t, existing) IN SelectSeq(raw, Keep)

\* The row runDeepScan adds for a term.
ScanRow(term, tr) ==
  [original |-> term.original,
   translation |-> tr,
   category |-> IF Truthy(term.category) THEN term.category ELSE OtherCategory,
   isLocked |-> FALSE]

FoundLabel(n) == "Found " \o ToString(n) \o " new terms. Translating..."
TranslatingLabel(k, n) == "Translating terms: " \o ToString(k) \o "/" \o ToString(n)

Min(a, b) == IF a < b THEN a ELSE b
Max(a, b) == IF a > b THEN a ELSE b

\* Chapter.content of chapter c as the words the scan reads.
WordsOf(c) ==
  CASE c = 1 -> <<"Zhang San", "cultivates">>
    [] c = 2 -> <<"lingqi", "flows">>
    [] OTHER -> <<"chapter", ToString(c)>>

\* [...chapters.slice(0, 3), chapters[Math.floor(chapters.length / 2)],
\*  ...chapters.slice(-3)].filter(Boolean)
SampleChapters(chs) ==
  SubSeq(chs, 1, Min(SampleEdge, Len(chs)))
    \o (IF Len(chs) > 0 THEN <<chs[(Len(chs) \div 2) + 1]>> ELSE <<>>)
    \o SubSeq(chs, Max(Len(chs) - SampleEdge, 0) + 1, Len(chs))

ParagraphBreak == "\n\n"

\* texts.join('\n\n')
RECURSIVE JoinTexts(_)
JoinTexts(texts) ==
  IF texts = <<>> THEN <<>>
  ELSE IF Len(texts) = 1 THEN texts[1]
  ELSE texts[1] \o <<ParagraphBreak>> \o JoinTexts(Tail(texts))

\* sampleChapters.map(c => c.content).join('\n\n')
CombinedText(sample) == JoinTexts([i \in 1..Len(sample) |-> WordsOf(sample[i])])

\* String.prototype.indexOf: the 0-based position of the first occurrence,
\* or -1.
IndexOf(text, w) ==
  IF \E i \in 1..Len(text) : text[i] = w
    THEN (CHOOSE i \in 1..Len(text) : text[i] = w /\ \A j \in 1..(i - 1) : text[j] /= w) - 1
    ELSE -1

\* String.prototype.substring(a, b): both arguments are clamped to
\* 0..length and swapped when a > b.
Substring(text, a, b) ==
  LET ca == Max(0, Min(a, Len(text)))
      cb == Max(0, Min(b, Len(text)))
  IN SubSeq(text, Min(ca, cb) + 1, Max(ca, cb))

\* combinedText.substring(combinedText.indexOf(o), combinedText.indexOf(o) + 100)
Snippet(text, o) == Substring(text, IndexOf(text, o), IndexOf(text, o) + SnippetLength)

\* Evaluating the filter throws a TypeError: an element is null, or its
\* original is a number (truthy, without toLowerCase).
FilterThrows(raw) ==
  \E i \in 1..Len(raw) : raw[i] = NullElement \/ raw[i].original = NumberValue

\* for (const term of uniqueNewTerms) { if (!term.original) continue; ... }:
\* the first position from j on that the loop body handles.
RECURSIVE NextTermFrom(_, _)
NextTermFrom(terms, j) ==
  IF j <= Len(terms) /\ ~Truthy(terms[j].original)
    THEN NextTermFrom(terms, j + 1)
    ELSE j

\* The loop goes on from position j, where it builds the snippet and asks
\* for the translation, or ends the scan when none is left.
ScanLoop(terms, j, label) ==
  IF NextTermFrom(terms, j) <= Len(terms)
    THEN /\ termIdx' = NextTermFrom(terms, j)
         /\ snippet' = Snippet(combinedText, terms[NextTermFrom(terms, j)].original)
         /\ scanPc' = "translatingTerm"
         /\ scanProgress' = label
         /\ scanLog' = Append(scanLog, label)
    ELSE /\ termIdx' = Len(terms)
         /\ scanPc' = "closing"
         /\ scanProgress' = "Scan Complete!"
         /\ scanLog' = scanLog \o <<label, "Scan Complete!">>
         /\ UNCHANGED snippet

\* What no step of a scan changes.
offScanVars == <<batchVars, tVars, storeVars, appVars>>

\* Deep Scan is clicked: a new call of runDeepScan, with its own locals,
\* runs up to the extractor call.
RunDeepScan ==
  /\ ~isScanning
  /\ scanPc = "idle"
  /\ nScans < MaxScans
  /\ present /= {}
  /\ nScans' = nScans + 1
  /\ isScanning' = TRUE
  /\ sampleChapters' = SampleChapters(ChaptersByOrder)
  /\ combinedText' = CombinedText(SampleChapters(ChaptersByOrder))
  /\ scanProgress' = "Extracting entities (AI)..."
  /\ scanLog' = <<"Initializing Deep Scan...", "Extracting entities (AI)...">>
  /\ scanPc' = "extracting"
  /\ scanInserted' = <<>>
  /\ termThrew' = <<>>
  /\ glossaryAtScan' = glossary
  /\ addRejected' = FALSE
  /\ rawTerms' = <<>>
  /\ rawIsArray' = TRUE
  /\ existingTerms' = <<>>
  /\ uniqueNewTerms' = <<>>
  /\ termIdx' = 0
  /\ completed' = 0
  /\ translation' = Undefined
  /\ snippet' = <<>>
  /\ UNCHANGED <<extractorResp, glossary, offScanVars>>

\* extractTermsFromText settles; the glossary read is issued.
ExtractReturns ==
  /\ scanPc = "extracting"
  /\ rawTerms' = ExtractOutcome(extractorResp).items
  /\ rawIsArray' = ExtractOutcome(extractorResp).isArray
  /\ scanPc' = "reading"
  /\ UNCHANGED <<isScanning, scanProgress, nScans, extractorResp, existingTerms,
                 uniqueNewTerms, termIdx, completed, translation, scanInserted,
                 sampleChapters, combinedText, snippet, termThrew, glossaryAtScan, addRejected,
                 glossary, scanLog, offScanVars>>

\* The glossary read resolves: the new terms are computed and the loop
\* begins, or the filter throws and the catch block ends the scan.
GlossaryRead ==
  /\ scanPc = "reading"
  /\ existingTerms' = glossary
  /\ IF ~rawIsArray \/ FilterThrows(rawTerms)
       THEN /\ scanProgress' = "Scan Failed."
            /\ scanLog' = Append(scanLog, "Scan Failed.")
            /\ scanPc' = "closing"
            /\ UNCHANGED <<uniqueNewTerms, termIdx, completed, snippet>>
       ELSE /\ uniqueNewTerms' = UniqueNewTerms(rawTerms, glossary)
            /\ completed' = 0
            /\ ScanLoop(UniqueNewTerms(rawTerms, glossary), 1,
                        FoundLabel(Len(UniqueNewTerms(rawTerms, glossary))))
  /\ UNCHANGED <<isScanning, nScans, extractorResp, rawTerms, rawIsArray,
                 translation, scanInserted, sampleChapters, combinedText,
                 termThrew, glossaryAtScan, addRejected, glossary, offScanVars>>

\* findArabicTranslationForTerm settles; db.glossary.add is issued.
TermTranslated ==
  /\ scanPc = "translatingTerm"
  /\ \E resp \in TermResponses(uniqueNewTerms[termIdx].original) :
       /\ translation' =
            FindArabicTranslationForTerm(resp, uniqueNewTerms[termIdx].original)
       /\ termThrew' = Append(termThrew, resp.throws)
  /\ scanPc' = "adding"
  /\ UNCHANGED <<isScanning, scanProgress, nScans, extractorResp, rawTerms,
                 rawIsArray, existingTerms, uniqueNewTerms, termIdx, completed,
                 scanInserted, sampleChapters, combinedText, snippet,
                 glossaryAtScan, addRejected, glossary, scanLog, offScanVars>>

\* Variant of TermAdded: the row takes the place of the first stored row.
TermAddedInPlace ==
  /\ scanPc = "adding"
  /\ glossary' = IF glossary = <<>>
                   THEN <<ScanRow(uniqueNewTerms[termIdx], translation)>>
                   ELSE [glossary EXCEPT ![1] = ScanRow(uniqueNewTerms[termIdx], translation)]
  /\ scanInserted' = Append(scanInserted, ScanRow(uniqueNewTerms[termIdx], translation))
  /\ completed' = completed + 1
  /\ ScanLoop(uniqueNewTerms, termIdx + 1,
              TranslatingLabel(completed + 1, Len(uniqueNewTerms)))
  /\ UNCHANGED <<isScanning, nScans, extractorResp, rawTerms, rawIsArray,
                 existingTerms, uniqueNewTerms, translation, sampleChapters,
                 combinedText, termThrew, glossaryAtScan, addRejected, offScanVars>>

\* db.glossary.add resolves: the row is stored and the loop goes on.
TermAdded ==
  /\ scanPc = "adding"
  /\ glossary' = Append(glossary, ScanRow(uniqueNewTerms[termIdx], translation))
  /\ scanInserted' = Append(scanInserted, ScanRow(uniqueNewTerms[termIdx], translation))
  /\ completed' = completed + 1
  /\ ScanLoop(uniqueNewTerms, termIdx + 1,
              TranslatingLabel(completed + 1, Len(uniqueNewTerms)))
  /\ UNCHANGED <<isScanning, nScans, extractorResp, rawTerms, rawIsArray,
                 existingTerms, uniqueNewTerms, translation, sampleChapters,
                 combinedText, termThrew, glossaryAtScan, addRejected, offScanVars>>

\* Variant of TermAddRejects: the rows the scan added are taken back.
TermAddRejectsRollsBack ==
  /\ scanPc = "adding"
  /\ scanProgress' = "Scan Failed."
  /\ scanLog' = Append(scanLog, "Scan Failed.")
  /\ scanPc' = "closing"
  /\ addRejected' = TRUE
  /\ glossary' = glossaryAtScan
  /\ UNCHANGED <<isScanning, nScans, extractorResp, rawTerms, rawIsArray,
                 existingTerms, uniqueNewTerms, termIdx, completed, translation,
                 scanInserted, sampleChapters, combinedText, snippet, termThrew,
                 glossaryAtScan, offScanVars>>

\* db.glossary.add rejects: the catch block ends the scan.
TermAddRejects ==
  /\ scanPc = "adding"
  /\ scanProgress' = "Scan Failed."
  /\ scanLog' = Append(scanLog, "Scan Failed.")
  /\ scanPc' = "closing"
  /\ addRejected' = TRUE
  /\ UNCHANGED <<isScanning, nScans, extractorResp, rawTerms, rawIsArray,
                 existingTerms, uniqueNewTerms, termIdx, completed, translation,
                 scanInserted, sampleChapters, combinedText, snippet, termThrew,
                 glossaryAtScan, glossary, offScanVars>>

\* The timer set at the end of the scan fires.
ScanTimer ==
  /\ scanPc = "closing"
  /\ isScanning' = FALSE
  /\ scanPc' = "idle"
  /\ UNCHANGED <<scanProgress, nScans, extractorResp, rawTerms, rawIsArray,
                 existingTerms, uniqueNewTerms, termIdx, completed, translation,
                 scanInserted, sampleChapters, combinedText, snippet, termThrew,
                 glossaryAtScan, addRejected, glossary, scanLog, offScanVars>>

\* ------------------------------------------- uploads and glossary editing
\* handleFileUpload with n files: bulkAddChapters sorts them by name and
\* stores them with order 1..n; the store gives them the next n ids.
BulkAddChapters ==
  \E n \in 1..(NumChapters - Cardinality(present)) :
    LET added == (Cardinality(present) + 1)..(Cardinality(present) + n)
    IN /\ present' = present \cup added
       /\ chapterOrder' = [c \in ChapterIds |->
            IF c \in added THEN c - Cardinality(present) ELSE chapterOrder[c]]
       /\ chapters' = [c \in ChapterIds |->
            IF c \in added THEN NewChapter ELSE chapters[c]]
       /\ UNCHANGED <<nEdits, glossary, uiVars, runVars, envVars, histVars,
                      tVars, scanVars, appVars>>

\* The row addEmptyTerm stores.
EmptyTerm ==
  [original |-> "New Term", translation |-> "Translation",
   category |-> OtherCategory, isLocked |-> FALSE]

\* What the edit form may hold when it is saved: the term with its
\* translation or its original typed over.
EditForms(term) ==
  {[term EXCEPT !.translation = "edited"], [term EXCEPT !.original = "Li Si"]}

\* The glossary without its i-th row.
WithoutRow(terms, i) ==
  [j \in 1..(Len(terms) - 1) |-> IF j < i THEN terms[j] ELSE terms[j + 1]]

\* The steps below change the glossary table only.
EditedOnly ==
  /\ nEdits < MaxEdits
  /\ nEdits' = nEdits + 1
  /\ UNCHANGED <<present, chapterOrder, batchVars, tVars, scanVars, appVars>>

\* Click on "Add Term".
AddEmptyTerm ==
  /\ glossary' = Append(glossary, EmptyTerm)
  /\ EditedOnly

\* Click on the save button of the row being edited.
SaveEdit ==
  /\ \E i \in 1..Len(glossary) : \E form \in EditForms(glossary[i]) :
       glossary' = [glossary EXCEPT ![i] = form]
  /\ EditedOnly

\* Click on the delete button of a row, confirmed.
DeleteTerm ==
  /\ \E i \in 1..Len(glossary) : glossary' = WithoutRow(glossary, i)
  /\ EditedOnly

\* Click on the lock of a row.
ToggleLock ==
  /\ \E i \in 1..Len(glossary) :
       glossary' = [glossary EXCEPT ![i].isLocked = ~glossary[i].isLocked]
  /\ EditedOnly

\* ----------------------------------------------------- views of the App
\* openReader: a chapter card of the dashboard is clicked. The dashboard is
\* unmounted and a Reader is mounted; what the dashboard started goes on.
OpenReader ==
  /\ view = "novel"
  /\ \E c \in present : chapterId' = c
  /\ view' = "reader"
  /\ UNCHANGED <<novelDeleted, navPc, navCall, nNavigations, readerVars,
                 batchVars, tVars, scanVars, glossary, storeVars>>

\* goHome: the back button of the dashboard.
GoHome ==
  /\ view = "novel"
  /\ view' = "library"
  /\ UNCHANGED <<chapterId, novelDeleted, navPc, navCall, nNavigations,
                 readerVars, batchVars, tVars, scanVars, glossary, storeVars>>

\* ---------------------------------------------------------------- Reader
\* No edit whose save is the latest write of its chapter by the Reader.
NoEdit == [made |-> FALSE, id |-> 0, value |-> ""]

\* `chapter` before the live query has delivered a row.
NotLoaded == [loaded |-> FALSE, id |-> 0, row |-> NewChapter]

\* What db.chapters.get(chapterId) delivers now.
StoredChapter ==
  IF chapterId \in present
    THEN [loaded |-> TRUE, id |-> chapterId, row |-> chapters[chapterId]]
    ELSE NotLoaded

\* chapter.translatedContent || ''
TextOrEmpty(row) ==
  IF Truthy(row.translatedContent) THEN row.translatedContent ELSE ""

\* The runs in whose queue chapter c waits, not yet handed to the translator,
\* paired with c, when the Reader stores the translation `text` for c.
WrittenAhead(c, text) ==
  IF c \in present /\ Truthy(text)
    THEN {<<r, c>> : r \in {q \in LiveRuns :
            /\ \E k \in 1..Len(queue[q]) : queue[q][k] = c
            /\ \A k \in 1..Len(callLog[q]) : callLog[q][k] /= c}}
    ELSE {}

\* The live query delivers the stored row and the effect on [chapter] puts
\* its translation into the editor.
ChapterEmitted ==
  /\ view = "reader"
  /\ readerChapter /= StoredChapter
  /\ readerChapter' = StoredChapter
  /\ editedTranslation' =
       IF StoredChapter.loaded THEN TextOrEmpty(StoredChapter.row)
       ELSE editedTranslation
  /\ UNCHANGED <<isTranslating, readerPc, readerCall, saveQueue, nReaderEdits,
                 nReaderAdds, lastEdit, readerInserted, wroteAhead, viewVars, batchVars,
                 tVars, scanVars, glossary, storeVars>>

\* handleTranslate is called from one of the two Translate buttons: up to
\* the call of the translator, the glossary read being issued at once.
HandleTranslate ==
  /\ view = "reader"
  /\ readerChapter.loaded
  /\ readerPc = "idle"
  /\ isTranslating' = TRUE
  /\ readerCall' = [id |-> readerChapter.id, glossary |-> glossary,
                    result |-> Undefined]
  /\ readerPc' = "translating"
  /\ UNCHANGED <<readerChapter, editedTranslation, saveQueue, nReaderEdits,
                 nReaderAdds, lastEdit, readerInserted, wroteAhead, viewVars, batchVars,
                 tVars, scanVars, glossary, storeVars>>

\* translateChapterWithGlossary settles: the result goes into the editor
\* and db.chapters.update is issued.
ReaderTranslateReturn ==
  /\ readerPc = "translating"
  /\ LET out == TranslateOutcome(
                  ServiceResponse(oracle[readerCall.id], ContentOf(readerCall.id)))
     IN /\ readerCall' = [readerCall EXCEPT !.result = out.value]
        /\ editedTranslation' = out.value
  /\ readerPc' = "updating"
  /\ UNCHANGED <<readerChapter, isTranslating, saveQueue, nReaderEdits,
                 nReaderAdds, lastEdit, readerInserted, wroteAhead, viewVars, batchVars,
                 tVars, scanVars, glossary, storeVars>>

\* The update of handleTranslate resolves; the finally block runs.
ReaderUpdateResolves ==
  /\ readerPc = "updating"
  /\ chapters' = IF readerCall.id \in present
                   THEN UpdateChapter(chapters, readerCall.id, readerCall.result)
                   ELSE chapters
  /\ isTranslating' = FALSE
  /\ readerPc' = "idle"
  /\ lastEdit' = IF lastEdit.id = readerCall.id THEN NoEdit ELSE lastEdit
  /\ wroteAhead' = wroteAhead \cup WrittenAhead(readerCall.id, readerCall.result)
  /\ UNCHANGED <<readerChapter, editedTranslation, readerCall, saveQueue,
                 nReaderEdits, nReaderAdds, readerInserted, viewVars,
                 uiVars, runVars, envVars, histVars, tVars, scanVars, glossary,
                 storeVars>>

\* Texts the user may leave in the translation editor by one edit.
EditTexts == {"", "edit one", "edit two"}

\* The text saveManualEdits writes when called from onChange: the
\* editedTranslation of the render the handler belongs to, which is the
\* text before the edit.
SavedByEdit(before, value) == before

\* onChange of the textarea: setEditedTranslation(e.target.value), then
\* saveManualEdits() up to its await.
EditTranslation ==
  /\ view = "reader"
  /\ readerChapter.loaded
  /\ Truthy(editedTranslation)
  /\ nReaderEdits < MaxReaderEdits
  /\ nReaderEdits' = nReaderEdits + 1
  /\ \E value \in EditTexts \ {editedTranslation} :
       /\ editedTranslation' = value
       /\ saveQueue' = Append(saveQueue,
            [id |-> readerChapter.id,
             value |-> SavedByEdit(editedTranslation, value)])
       /\ lastEdit' = [made |-> TRUE, id |-> readerChapter.id, value |-> value]
  /\ UNCHANGED <<readerChapter, isTranslating, readerPc, readerCall, nReaderAdds,
                 readerInserted, wroteAhead, viewVars, batchVars, tVars, scanVars, glossary,
                 storeVars>>

\* db.chapters.update(id, { translatedContent }): lastTranslated is kept.
UpdateTranslatedContent(store, c, text) ==
  [store EXCEPT ![c] = [translatedContent |-> text,
                        lastTranslated |-> store[c].lastTranslated]]

\* The oldest pending update of saveManualEdits resolves.
SaveResolves ==
  /\ saveQueue /= <<>>
  /\ chapters' = IF Head(saveQueue).id \in present
                   THEN UpdateTranslatedContent(chapters, Head(saveQueue).id,
                                                Head(saveQueue).value)
                   ELSE chapters
  /\ saveQueue' = Tail(saveQueue)
  /\ wroteAhead' = wroteAhead \cup WrittenAhead(Head(saveQueue).id, Head(saveQueue).value)
  /\ UNCHANGED <<readerChapter, editedTranslation, isTranslating, readerPc,
                 readerCall, nReaderEdits, nReaderAdds, lastEdit, readerInserted,
                 viewVars, uiVars, runVars, envVars, histVars, tVars, scanVars,
                 glossary, storeVars>>

\* Texts the user may select in the original and answer to the prompt.
Selections == {"Zhang San", "flows"}
PromptAnswers == {"", "zhang"}

\* Variant of SelectionRow: the row is left unlocked.
SelectionRowUnlocked(text, arabicTrans) ==
  [original |-> text, translation |-> arabicTrans,
   category |-> OtherCategory, isLocked |-> FALSE]

\* The row addToGlossary adds for a selection.
SelectionRow(text, arabicTrans) ==
  [original |-> text, translation |-> arabicTrans,
   category |-> OtherCategory, isLocked |-> TRUE]

\* Click on the button over a selection: the prompt is answered and, when
\* the answer is not empty, the row is added.
AddToGlossary ==
  /\ view = "reader"
  /\ readerChapter.loaded
  /\ nReaderAdds < MaxReaderAdds
  /\ nReaderAdds' = nReaderAdds + 1
  /\ \E text \in Selections, arabicTrans \in PromptAnswers :
       /\ Truthy(arabicTrans)
       /\ glossary' = Append(glossary, SelectionRow(text, arabicTrans))
       /\ readerInserted' = Append(readerInserted, SelectionRow(text, arabicTrans))
  /\ UNCHANGED <<readerChapter, editedTranslation, isTranslating, readerPc,
                 readerCall, saveQueue, nReaderEdits, lastEdit, wroteAhead, viewVars,
                 batchVars, tVars, scanVars, storeVars>>

\* ------------------------------------------------------------ navigation
\* The locals of handleReaderNavigate when no call has been made.
NoNavigation == [direction |-> "next", from |-> 0, targetOrder |-> 0, to |-> 0]

\* handleReaderNavigate(direction) up to db.chapters.get.
HandleReaderNavigate ==
  /\ view = "reader"
  /\ chapterId /= 0
  /\ navPc = "idle"
  /\ nNavigations < MaxNavigations
  /\ nNavigations' = nNavigations + 1
  /\ \E direction \in {"next", "prev"} :
       navCall' = [direction |-> direction, from |-> chapterId,
                   targetOrder |-> 0, to |-> 0]
  /\ navPc' = "getting"
  /\ UNCHANGED <<view, chapterId, novelDeleted, readerVars, batchVars, tVars,
                 scanVars, glossary, storeVars>>

\* direction === 'next' ? currentChapter.order + 1 : currentChapter.order - 1
TargetOrder(direction, order) ==
  IF direction = "next" THEN order + 1 ELSE order - 1

\* db.chapters.get resolves: without a row the call returns, with one the
\* query for the target order is issued.
CurrentChapterRead ==
  /\ navPc = "getting"
  /\ IF navCall.from \in present
       THEN /\ navCall' = [navCall EXCEPT !.targetOrder =
                             TargetOrder(navCall.direction, chapterOrder[navCall.from])]
            /\ navPc' = "finding"
       ELSE /\ navPc' = "idle"
            /\ navCall' = [navCall EXCEPT !.to = chapterId]
  /\ UNCHANGED <<view, chapterId, novelDeleted, nNavigations, readerVars,
                 batchVars, tVars, scanVars, glossary, storeVars>>

\* The rows where({ novelId, order }) matches.
ChaptersWithOrder(order) == {c \in present : chapterOrder[c] = order}

\* .first() of the query: the match with the lowest id.
FirstOf(ids) == CHOOSE c \in ids : \A d \in ids : c <= d

\* The query resolves: with a target the view moves to it.
TargetChapterRead ==
  /\ navPc = "finding"
  /\ chapterId' = IF ChaptersWithOrder(navCall.targetOrder) /= {}
                    THEN FirstOf(ChaptersWithOrder(navCall.targetOrder))
                    ELSE chapterId
  /\ navCall' = [navCall EXCEPT !.to = chapterId']
  /\ navPc' = "idle"
  /\ UNCHANGED <<view, novelDeleted, nNavigations, readerVars, batchVars, tVars,
                 scanVars, glossary, storeVars>>

\* ---------------------------------------------------------------- Library
\* No request to the store is pending. The store runs transactions over
\* the same tables in the order they were created, so that a request issued
\* before handleDelete's transaction has settled when the transaction runs.
RequestsSettled ==
  /\ scanPc \notin {"reading", "adding"}
  /\ \A r \in RunIds : pc[r] /= "saving"
  /\ readerPc /= "updating"
  /\ saveQueue = <<>>

\* handleDelete, confirmed: one transaction deletes the novel's chapters,
\* its glossary and the novel.
HandleDelete ==
  /\ view = "library"
  /\ ~novelDeleted
  /\ RequestsSettled
  /\ novelDeleted' = TRUE
  /\ present' = {}
  /\ chapterOrder' = [c \in ChapterIds |-> 0]
  /\ chapters' = [c \in ChapterIds |-> NewChapter]
  /\ glossary' = <<>>
  /\ UNCHANGED <<view, chapterId, navPc, navCall, nNavigations, nEdits,
                 readerVars, uiVars, runVars, envVars, histVars, tVars, scanVars>>

\* ------------------------------------------------------------ specification
\* The dashboard after mounting: no run, chapters as uploaded.
BatchStart ==
  /\ chapters = [c \in ChapterIds |-> NewChapter]
  /\ isBulkTranslating = FALSE
  /\ bulkPaused = FALSE
  /\ bulkPausedRef = FALSE
  /\ stopSignal = FALSE
  /\ bulkProgress = [current |-> 0, total |-> 0, chapterName |-> ""]
  /\ nRuns = 0
  /\ pc = [r \in RunIds |-> "idle"]
  /\ idx = [r \in RunIds |-> 0]
  /\ queue = [r \in RunIds |-> <<>>]
  /\ pending = [r \in RunIds |-> Undefined]
  /\ callLog = [r \in RunIds |-> <<>>]
  /\ saved = [r \in RunIds |-> {}]
  /\ progressLog = [r \in RunIds |-> <<>>]
  /\ stopPhase = [r \in RunIds |-> "none"]
  /\ stopIdx = [r \in RunIds |-> 0]
  /\ exit = [r \in RunIds |-> "none"]
  /\ everPolled = [r \in RunIds |-> FALSE]
  /\ runGlossary = [r \in RunIds |-> <<>>]
  /\ finishAlerts = [r \in RunIds |-> 0]
  /\ promptLog = [r \in RunIds |-> <<>>]
  /\ returned = [r \in RunIds |-> 0]
  /\ atStart = [r \in RunIds |-> NoStore]
  /\ cooldowns = [r \in RunIds |-> {}]

\* The App shows the dashboard of the novel; no Reader has been mounted.
AppStart ==
  /\ view = "novel"
  /\ chapterId = 0
  /\ novelDeleted = FALSE
  /\ navPc = "idle"
  /\ navCall = NoNavigation
  /\ nNavigations = 0
  /\ readerChapter = NotLoaded
  /\ editedTranslation = ""
  /\ isTranslating = FALSE
  /\ readerPc = "idle"
  /\ readerCall = [id |-> 0, glossary |-> <<>>, result |-> Undefined]
  /\ saveQueue = <<>>
  /\ nReaderEdits = 0
  /\ nReaderAdds = 0
  /\ lastEdit = NoEdit
  /\ readerInserted = <<>>
  /\ wroteAhead = {}

\* No translator call of the second specification is under way.
TIdle ==
  /\ tpc = "ready"
  /\ tContent = ContentOf(1)
  /\ tGlossary = <<>>
  /\ tResp = ServiceResponse("ok", ContentOf(1))
  /\ tOut = [raised |-> FALSE, value |-> Undefined]

\* No scan has run; the scan's locals hold nothing.
ScanIdle ==
  /\ isScanning = FALSE
  /\ scanProgress = ""
  /\ scanPc = "idle"
  /\ nScans = 0
  /\ rawTerms = <<>>
  /\ existingTerms = <<>>
  /\ uniqueNewTerms = <<>>
  /\ termIdx = 0
  /\ completed = 0
  /\ translation = Undefined
  /\ scanInserted = <<>>
  /\ sampleChapters = <<>>
  /\ combinedText = <<>>
  /\ rawIsArray = TRUE
  /\ snippet = <<>>
  /\ termThrew = <<>>
  /\ glossaryAtScan = <<>>
  /\ addRejected = FALSE
  /\ scanLog = <<>>

\* The glossary the batch specification runs with.
StartGlossary ==
  <<[original |-> "lingqi", translation |-> "energy",
     category |-> OtherCategory, isLocked |-> FALSE],
    [original |-> "Zhang San", translation |-> "zhang",
     category |-> "Person", isLocked |-> TRUE]>>

\* The novel's chapters as one upload of NumChapters files stores them.
AllUploaded ==
  /\ present = ChapterIds
  /\ chapterOrder = [c \in ChapterIds |-> c]
  /\ nEdits = 0

Init ==
  /\ BatchStart
  /\ AppStart
  /\ ScanIdle
  /\ AllUploaded
  /\ extractorResp = NoAnswer
  /\ glossary = StartGlossary
  /\ oracle \in [ChapterIds -> ServiceKinds]
  /\ ServiceFaults(oracle) <= MaxServiceFaults
  /\ storeFails \in SUBSET ChapterIds
  /\ Cardinality(storeFails) <= MaxStoreFaults
  /\ TIdle

Next ==
  \/ StartBulkTranslation
  \/ TogglePause
  \/ StopBulk
  \/ \E r \in RunIds : GlossaryLoaded(r)
  \/ \E r \in RunIds : PollWake(r)
  \/ \E r \in RunIds : TranslateReturn(r)
  \/ \E r \in RunIds : UpdateResolves(r)
  \/ \E r \in RunIds : UpdateRejects(r)
  \/ \E r \in RunIds : CooldownDone(r)

Spec == Init /\ [][Next]_vars

\* The translator wrapper alone, over every argument and service behaviour.
TInit ==
  /\ BatchStart
  /\ AppStart
  /\ ScanIdle
  /\ AllUploaded
  /\ extractorResp = NoAnswer
  /\ glossary = <<>>
  /\ oracle = [c \in ChapterIds |-> "ok"]
  /\ storeFails = {}
  /\ tpc = "ready"
  /\ tContent \in {ContentOf(c) : c \in ChapterIds}
  /\ tGlossary \in Glossaries
  /\ tResp \in TResponses(tContent)
  /\ tOut = [raised |-> FALSE, value |-> Undefined]

TNext == TranslateCall

SpecTranslate == TInit /\ [][TNext]_vars

\* The deep scan alone, over every extractor answer and stored glossary.
ScanInit ==
  /\ BatchStart
  /\ AppStart
  /\ oracle = [c \in ChapterIds |-> "ok"]
  /\ storeFails = {}
  /\ TIdle
  /\ ScanIdle
  /\ present \in {1..n : n \in 1..NumChapters}
  /\ chapterOrder = [c \in ChapterIds |-> IF c \in present THEN c ELSE 0]
  /\ nEdits = 0
  /\ extractorResp \in ExtractorResponses
  /\ glossary \in ExistingGlossaries

ScanNext ==
  \/ RunDeepScan
  \/ ExtractReturns
  \/ GlossaryRead
  \/ TermTranslated
  \/ TermAdded
  \/ TermAddRejects
  \/ ScanTimer

SpecScan == ScanInit /\ [][ScanNext]_vars

\* Batch runs while chapters are uploaded and the glossary is edited; the
\* service and the store always succeed and the pause button is left alone.
LiveInit ==
  /\ BatchStart
  /\ AppStart
  /\ oracle = [c \in ChapterIds |-> "ok"]
  /\ storeFails = {}
  /\ TIdle
  /\ ScanIdle
  /\ extractorResp = NoAnswer
  /\ glossary = StartGlossary
  /\ present = {}
  /\ chapterOrder = [c \in ChapterIds |-> 0]
  /\ nEdits = 0

LiveNext ==
  \/ StartBulkTranslation
  \/ StopBulk
  \/ \E r \in RunIds : GlossaryLoaded(r)
  \/ \E r \in RunIds : TranslateReturn(r)
  \/ \E r \in RunIds : UpdateResolves(r)
  \/ \E r \in RunIds : CooldownDone(r)
  \/ BulkAddChapters
  \/ AddEmptyTerm
  \/ SaveEdit
  \/ DeleteTerm
  \/ ToggleLock

SpecLive == LiveInit /\ [][LiveNext]_vars

\* Batch runs whose glossary load may reject; the translator and the chapter
\* store always succeed.
LoadInit ==
  /\ BatchStart
  /\ AppStart
  /\ oracle = [c \in ChapterIds |-> "ok"]
  /\ storeFails = {}
  /\ TIdle
  /\ ScanIdle
  /\ AllUploaded
  /\ extractorResp = NoAnswer
  /\ glossary = StartGlossary

LoadNext ==
  \/ StartBulkTranslation
  \/ TogglePause
  \/ StopBulk
  \/ \E r \in RunIds : GlossaryLoaded(r)
  \/ \E r \in RunIds : GlossaryLoadRejects(r)
  \/ \E r \in RunIds : PollWake(r)
  \/ \E r \in RunIds : TranslateReturn(r)
  \/ \E r \in RunIds : UpdateResolves(r)
  \/ \E r \in RunIds : CooldownDone(r)

SpecLoad == LoadInit /\ [][LoadNext]_vars

\* Every pending await of a run settles and every timer fires.
LoadFairness ==
  \A r \in RunIds :
    /\ WF_vars(GlossaryLoaded(r) \/ GlossaryLoadRejects(r))
    /\ WF_vars(PollWake(r))
    /\ WF_vars(TranslateReturn(r))
    /\ WF_vars(UpdateResolves(r))
    /\ WF_vars(CooldownDone(r))

SpecLoadFair == SpecLoad /\ LoadFairness

\* The dashboard handlers can be called while the dashboard is shown.
StartFromDashboard == view = "novel" /\ StartBulkTranslation
ScanFromDashboard == view = "novel" /\ RunDeepScan

\* The mounted dashboard of a novel whose chapters are uploaded; the
\* services and the store always succeed.
ReaderInit ==
  /\ BatchStart
  /\ AppStart
  /\ oracle = [c \in ChapterIds |-> "ok"]
  /\ storeFails = {}
  /\ TIdle
  /\ ScanIdle
  /\ AllUploaded
  /\ extractorResp = NoAnswer
  /\ glossary = StartGlossary

\* The Reader alone: translating one chapter and editing its translation.
EditNext ==
  \/ OpenReader
  \/ ChapterEmitted
  \/ HandleTranslate
  \/ ReaderTranslateReturn
  \/ ReaderUpdateResolves
  \/ EditTranslation
  \/ SaveResolves

SpecEdit == ReaderInit /\ [][EditNext]_vars

\* A batch run started from the dashboard goes on while the Reader is used.
ReaderNext ==
  \/ StartFromDashboard
  \/ \E r \in RunIds : GlossaryLoaded(r)
  \/ \E r \in RunIds : TranslateReturn(r)
  \/ \E r \in RunIds : UpdateResolves(r)
  \/ \E r \in RunIds : CooldownDone(r)
  \/ OpenReader
  \/ ChapterEmitted
  \/ HandleTranslate
  \/ ReaderTranslateReturn
  \/ ReaderUpdateResolves
  \/ EditTranslation
  \/ SaveResolves

SpecReader == ReaderInit /\ [][ReaderNext]_vars

\* Extractor answers that name terms: arrays of objects with an original
\* and a category.
NamedAnswers ==
  {[throws |-> FALSE, kind |-> "array", terms |-> list] :
     list \in UNION {[1..n -> [original : Originals, category : {"Person"}]] :
                      n \in 0..MaxCandidates}}

\* A deep scan started from the dashboard goes on while terms are added
\* from selections in the Reader.
TermsInit ==
  /\ BatchStart
  /\ AppStart
  /\ oracle = [c \in ChapterIds |-> "ok"]
  /\ storeFails = {}
  /\ TIdle
  /\ ScanIdle
  /\ AllUploaded
  /\ extractorResp \in NamedAnswers
  /\ glossary = <<>>

TermsNext ==
  \/ ScanFromDashboard
  \/ ExtractReturns
  \/ GlossaryRead
  \/ TermTranslated
  \/ TermAdded
  \/ TermAddRejects
  \/ ScanTimer
  \/ OpenReader
  \/ ChapterEmitted
  \/ AddToGlossary

SpecTerms == TermsInit /\ [][TermsNext]_vars

\* A batch run and a deep scan started from the dashboard go on while the
\* user goes back to the Library and deletes the novel.
DeleteInit ==
  /\ BatchStart
  /\ AppStart
  /\ oracle = [c \in ChapterIds |-> "ok"]
  /\ storeFails = {}
  /\ TIdle
  /\ ScanIdle
  /\ AllUploaded
  /\ extractorResp \in NamedAnswers
  /\ glossary = StartGlossary

DeleteNext ==
  \/ StartFromDashboard
  \/ \E r \in RunIds : GlossaryLoaded(r)
  \/ \E r \in RunIds : TranslateReturn(r)
  \/ \E r \in RunIds : UpdateResolves(r)
  \/ \E r \in RunIds : CooldownDone(r)
  \/ ScanFromDashboard
  \/ ExtractReturns
  \/ GlossaryRead
  \/ TermTranslated
  \/ TermAdded
  \/ ScanTimer
  \/ GoHome
  \/ HandleDelete

SpecDelete == DeleteInit /\ [][DeleteNext]_vars

\* Navigation in the Reader over the rows the store holds: Chapter.order is
\* a number the row carries, and handleReaderNavigate reads it as it is.
NavigateInit ==
  /\ BatchStart
  /\ AppStart
  /\ oracle = [c \in ChapterIds |-> "ok"]
  /\ storeFails = {}
  /\ TIdle
  /\ ScanIdle
  /\ extractorResp = NoAnswer
  /\ glossary = StartGlossary
  /\ present = ChapterIds
  /\ chapterOrder \in [ChapterIds -> 1..MaxOrder]
  /\ nEdits = 0

NavigateNext ==
  \/ OpenReader
  \/ ChapterEmitted
  \/ HandleReaderNavigate
  \/ CurrentChapterRead
  \/ TargetChapterRead

SpecNavigate == NavigateInit /\ [][NavigateNext]_vars

\* ------------------------------------------------------- reading the state
\* The BatchRun state (Running, Paused, Stopped, Completed) of run r as the
\* component encodes it: a stop request or a break is Stopped, an exhausted
\* queue is Completed, otherwise the pause flag decides.
RunState(r) ==
  IF pc[r] = "idle" THEN "None"
  ELSE IF exit[r] = "exhausted" THEN "Completed"
  ELSE IF exit[r] = "break" \/ stopPhase[r] /= "none" THEN "Stopped"
  ELSE IF bulkPaused THEN "Paused"
  ELSE "Running"

\* The first k chapters of run r's queue.
QueuePrefix(r, k) == {queue[r][j] : j \in 1..k}

\* The chapters of run r's queue.
QueueSet(r) == QueuePrefix(r, Len(queue[r]))

\* What the try block stores for chapter c: the string the wrapper returns.
StoredText(c) == TranslateOutcome(ServiceResponse(oracle[c], ContentOf(c))).value

\* The service fails for chapter c (rejects or answers without text).
TranslatorFails(c) == ~ServiceSucceeded(ServiceResponse(oracle[c], ContentOf(c)))

\* The loop run over queue q with no pause and no stop: the translator calls
\* it makes, and the chapters it writes.
NoPauseCalls(q) == q
NoPauseWrites(q) == {q[j] : j \in 1..Len(q)} \ storeFails

\* Run r has returned and no stop was requested while it was live.
RanUnstopped(r) == pc[r] = "done" /\ stopPhase[r] = "none"

\* -------------------------------------------------------------------- C1
\* C1 (as claimed): when stop is requested while run r is not paused, during
\* the translation, saving or cooldown of its item k with k < N, run r never
\* dispatches or persists any of the items k+1..N and it ends Stopped.
C1_StopHaltsRun ==
  \A r \in RunIds :
    (stopPhase[r] \in {"translating", "saving", "cooldown"} /\ stopIdx[r] < Len(queue[r]))
      => /\ Len(callLog[r]) = stopIdx[r]
         /\ saved[r] \subseteq QueuePrefix(r, stopIdx[r])
         /\ (pc[r] = "done" => RunState(r) = "Stopped")

\* -------------------------------------------------------------------- C2
\* C2 (as claimed): when stop is requested while run r waits in the pause loop
\* before item i, run r leaves the loop without dispatching item i, and it
\* never dispatches or persists item i or a later one.
C2_StopWhilePausedSkipsItem ==
  \A r \in RunIds :
    stopPhase[r] = "polling"
      => /\ Len(callLog[r]) = stopIdx[r]
         /\ saved[r] \subseteq QueuePrefix(r, stopIdx[r])

\* -------------------------------------------------------------------- C3
\* C3 (as claimed): at most one run is live at any time, and no chapter is
\* handed to the translator by two runs.
C3_OneLiveRun ==
  /\ Cardinality(LiveRuns) <= 1
  /\ \A r1, r2 \in RunIds :
       r1 /= r2 =>
         {callLog[r1][j] : j \in 1..Len(callLog[r1])}
           \cap {callLog[r2][j] : j \in 1..Len(callLog[r2])} = {}

\* -------------------------------------------------------------------- C4
\* C4 (as claimed): once run r is Stopped or Completed, no step, whatever
\* command came before it, makes run r dispatch another item.
C4_TerminalIsFinal ==
  [][\A r \in RunIds :
       RunState(r) \in {"Stopped", "Completed"} => callLog'[r] = callLog[r]]_vars

C6_OnlySuccessPersisted ==
  /\ \A r \in RunIds : \A c \in saved[r] : ~TranslatorFails(c)
  /\ \A c \in ChapterIds : TranslatorFails(c) => IsUntranslated(c)

\* -------------------------------------------------------------------- C7
\* C7 (as claimed): translateChapterWithGlossary never raises, and what it
\* returns when the service failed differs from everything it returns when
\* the service succeeded, so that the caller can tell the two apart.
C7_FailureDistinguishable ==
  tpc = "returned"
    => /\ ~tOut.raised
       /\ (~ServiceSucceeded(tResp)
             => \A ok \in TResponses(tContent) :
                  ServiceSucceeded(ok) => TranslateOutcome(ok) /= tOut)

ItemProgress(r) == [k \in 1..Len(queue[r]) |-> ProgressOf(r, k - 1)]

\* C9 (as claimed): a run that runs through its queue of N items emits
\* exactly N progress events, with current = 1, 2, ..., N and total = N.
C9_ExactlyNEvents ==
  \A r \in RunIds :
    exit[r] = "exhausted"
      => /\ Len(progressLog[r]) = Len(queue[r])
         /\ \A k \in 1..Len(progressLog[r]) :
              progressLog[r][k].current = k /\ progressLog[r][k].total = Len(queue[r])

\* C9 (amended): such a run emits N + 1 progress events: first one with
\* current = 0, total = N and an empty label, then one per item before its
\* translation, with current = 1, 2, ..., N and total = N.
C9_ResetThenNEvents ==
  \A r \in RunIds :
    exit[r] = "exhausted"
      => /\ Len(progressLog[r]) = Len(queue[r]) + 1
         /\ progressLog[r][1] = [current |-> 0, total |-> Len(queue[r]), chapterName |-> ""]
         /\ \A k \in 1..Len(queue[r]) :
              /\ progressLog[r][k + 1].current = k
              /\ progressLog[r][k + 1].total = Len(queue[r])
              /\ progressLog[r][k + 1].chapterName = TitleOf(queue[r][k])

\* A run of at least two items has run through its queue.
C9_Witness ==
  \E r \in RunIds :
    /\ exit[r] = "exhausted"
    /\ Len(queue[r]) >= 2
    /\ Len(callLog[r]) = Len(queue[r])

\* ------------------------------------------------------------------- C10
\* C10: a run in which pause and resume came at any points and stop never
\* came made the translator calls of the run without pause, in the same
\* order, and wrote the chapters that run writes, with the same texts.
C10_PauseIsTransparent ==
  \A r \in RunIds :
    RanUnstopped(r)
      => /\ callLog[r] = NoPauseCalls(queue[r])
         /\ saved[r] = NoPauseWrites(queue[r])
         /\ \A c \in saved[r] :
              chapters[c] = [translatedContent |-> StoredText(c), lastTranslated |-> TRUE]

\* A run of at least two items that waited in the pause loop has ended
\* without a stop.
C10_Witness ==
  \E r \in RunIds :
    /\ RanUnstopped(r)
    /\ everPolled[r]
    /\ Len(queue[r]) >= 2
    /\ saved[r] /= {}


\* ------------------------------------------------------------ deep scan claims
\* The scan has computed its list of new terms.
ScanComputed == nScans > 0 /\ scanPc \notin {"extracting", "reading"}

SameIgnoringCase(a, b) == ToLowerCase(a) = ToLowerCase(b)

\* C11: the list of new terms holds no candidate whose original equals,
\* ignoring case, the original of a term that was in the glossary when the
\* list was computed, locked or not; and the terms it was compared with are
\* the whole glossary of that moment (the glossary is those terms followed by
\* what the scan added since).
C11_NewTermsNotInGlossary ==
  ScanComputed =>
    /\ glossary = existingTerms \o scanInserted
    /\ \A i \in 1..Len(uniqueNewTerms) : \A j \in 1..Len(existingTerms) :
         ~SameIgnoringCase(uniqueNewTerms[i].original, existingTerms[j].original)

\* A locked term "ZHANG SAN" is stored, the extractor names "Zhang San" and
\* something else, and the list keeps only the something else.
C11_Witness ==
  /\ ScanComputed
  /\ \E j \in 1..Len(existingTerms) :
       existingTerms[j].original = "ZHANG SAN" /\ existingTerms[j].isLocked
  /\ \E i \in 1..Len(rawTerms) : rawTerms[i].original = "Zhang San"
  /\ Len(uniqueNewTerms) = 1
  /\ uniqueNewTerms[1].original = "lingqi"
  /\ Len(scanInserted) = 1

\* C12: the list of new terms holds no two entries with the same original
\* ignoring case, and one scan adds at most one Term per original.
C12_NoRepeatedOriginal ==
  /\ \A i, j \in 1..Len(uniqueNewTerms) :
       i /= j => ~SameIgnoringCase(uniqueNewTerms[i].original, uniqueNewTerms[j].original)
  /\ \A i, j \in 1..Len(scanInserted) :
       i /= j => ~SameIgnoringCase(scanInserted[i].original, scanInserted[j].original)

\* ------------------------------------------------------------------- C13
\* C13: every prompt a run sends holds, for each term of the glossary and in
\* the glossary's order, one line "original -> translation", together with
\* the content of the chapter being translated; and when the service answers
\* with a text, that text is what the run stores as translatedContent.
C13_PromptAndPersist ==
  \A r \in RunIds :
    /\ Len(promptLog[r]) = Len(callLog[r])
    /\ \A k \in 1..Len(promptLog[r]) :
         /\ promptLog[r][k].prompt.content = ContentOf(callLog[r][k])
         /\ Len(promptLog[r][k].prompt.glossaryString) = Len(glossary)
         /\ \A i \in 1..Len(glossary) :
              promptLog[r][k].prompt.glossaryString[i] =
                glossary[i].original \o " -> " \o glossary[i].translation
    /\ \A c \in saved[r] :
         oracle[c] = "ok" => chapters[c].translatedContent = ArabicOf(ContentOf(c))

\* A run with a glossary of two terms has sent a prompt for every chapter and
\* has stored an answer of the service.
C13_Witness ==
  \E r \in RunIds :
    /\ Len(glossary) = 2
    /\ glossary[1].original /= glossary[2].original
    /\ Len(promptLog[r]) = NumChapters
    /\ \E c \in saved[r] : oracle[c] = "ok"

\* ------------------------------------------------------------------- C14
\* C14: a run started after an earlier run had run through its whole queue
\* with no stop requested makes no translator call for, and no write to, a
\* chapter that had a translation when it was started.
C14_RestartSkipsTranslated ==
  \A r \in RunIds :
    (pc[r] /= "idle" /\ atStart[r].completedBefore)
      => /\ \A k \in 1..Len(callLog[r]) : callLog[r][k] \notin atStart[r].translated
         /\ saved[r] \cap atStart[r].translated = {}

\* A second run, started after a completed run that left one chapter without
\* a translation, has made its call and ended.
C14_Witness ==
  \E r \in RunIds :
    /\ atStart[r].completedBefore
    /\ Cardinality(atStart[r].translated) = NumChapters - 1
    /\ Len(callLog[r]) = 1
    /\ pc[r] = "done"

\* ------------------------------------------------------------------- C15
\* C15 (as claimed): no two stored chapters of the novel have the same order.
C15_OrdersDistinct ==
  \A a, b \in present : a /= b => chapterOrder[a] /= chapterOrder[b]

\* ------------------------------------------------------------------- C16
\* C16: the translator calls of a run are a prefix of its queue, position by
\* position; no chapter is queued twice; and at most one call of the run has
\* not yet settled.
C16_InOrderOneAtATime ==
  \A r \in RunIds :
    /\ Len(callLog[r]) <= Len(queue[r])
    /\ \A k \in 1..Len(callLog[r]) : callLog[r][k] = queue[r][k]
    /\ \A j, k \in 1..Len(queue[r]) : j /= k => queue[r][j] /= queue[r][k]
    /\ Len(callLog[r]) - returned[r] \in {0, 1}

\* A run has dispatched its whole queue of NumChapters items, the last call
\* still in flight.
C16_Witness ==
  \E r \in RunIds :
    /\ Len(queue[r]) = NumChapters
    /\ NumChapters >= 3
    /\ callLog[r] = queue[r]
    /\ returned[r] = NumChapters - 1
    /\ pc[r] = "translating"

\* ------------------------------------------------------------------- C17
\* C17: in a state where pause is on and no stop has been requested, no step
\* starts a translator call of any run.
C17_PausedStartsNoCall ==
  [][(bulkPaused /\ ~stopSignal) => callLog' = callLog]_vars

\* Pause was pressed during the first item of a run; the run has reached the pre-item check of its second item and waits.
C17_Witness ==
  \E r \in RunIds :
    /\ bulkPaused
    /\ ~stopSignal
    /\ pc[r] = "polling"
    /\ Len(callLog[r]) = 1
    /\ Len(queue[r]) >= 2

\* ------------------------------------------------------------------- C18
\* What was stored without a translation when run r was started.
LackingAtStart(r) == atStart[r].present \ atStart[r].translated

\* C18: the queue of a run holds exactly the chapters that were stored
\* without a translation when it was started, each once, by ascending order;
\* and every translator call and every write of the run is for one of them,
\* so none is for a chapter that had a translation then or was added later.
C18_QueueIsUntranslatedAtStart ==
  \A r \in RunIds :
    pc[r] /= "idle"
      => /\ QueueSet(r) = LackingAtStart(r)
         /\ \A j, k \in 1..Len(queue[r]) :
              j < k => /\ queue[r][j] /= queue[r][k]
                       /\ chapterOrder[queue[r][j]] <= chapterOrder[queue[r][k]]
         /\ \A k \in 1..Len(callLog[r]) : callLog[r][k] \in LackingAtStart(r)
         /\ saved[r] \subseteq LackingAtStart(r)

\* A run started with one chapter translated and one not has ended, and a
\* chapter uploaded after its start is stored and untouched.
C18_Witness ==
  \E r \in RunIds :
    /\ pc[r] = "done"
    /\ atStart[r].translated /= {}
    /\ saved[r] /= {}
    /\ \E c \in present \ atStart[r].present :
         ~Truthy(chapters[c].translatedContent)

\* ------------------------------------------------------------------- C19
\* C19: every prompt of a run lists the glossary as the table held it when
\* the run was started, whatever the table holds when the prompt is sent.
C19_GlossaryFixedAtStart ==
  \A r \in RunIds : \A k \in 1..Len(promptLog[r]) :
    /\ Len(promptLog[r][k].prompt.glossaryString) = Len(atStart[r].glossary)
    /\ \A i \in 1..Len(atStart[r].glossary) :
         promptLog[r][k].prompt.glossaryString[i] =
           atStart[r].glossary[i].original \o " -> " \o atStart[r].glossary[i].translation

\* A run sent a prompt for its second item when the table's terms no longer
\* gave the lines the run had started with.
C19_Witness ==
  \E r \in RunIds : \E k \in 2..Len(promptLog[r]) :
    /\ promptLog[r][k].table /= atStart[r].glossary
    /\ \/ Len(promptLog[r][k].table) /= Len(atStart[r].glossary)
       \/ \E i \in 1..Len(atStart[r].glossary) :
            \/ promptLog[r][k].table[i].original /= atStart[r].glossary[i].original
            \/ promptLog[r][k].table[i].translation /= atStart[r].glossary[i].translation

\* ------------------------------------------------------------------- C20
\* C20 (as claimed): a run that has ended showed the "finished" notification
\* exactly if it ran off the end of its queue with no stop requested.
C20_FinishedIffCompleted ==
  \A r \in RunIds :
    pc[r] = "done"
      => (finishAlerts[r] > 0 <=> (exit[r] = "exhausted" /\ stopPhase[r] = "none"))


\* ------------------------------------------------------------------- C21
\* C21 (as claimed): between the dispatches of items k and k+1 of a run the
\* run has waited the cooldown after item k, and the run waits no cooldown
\* after the last item of its queue.
C21_CooldownBetweenItems ==
  \A r \in RunIds :
    /\ \A k \in 1..(Len(callLog[r]) - 1) : k \in cooldowns[r]
    /\ Len(queue[r]) \notin cooldowns[r]


\* ------------------------------------------------------------------- C22
\* C22: the step that starts a run leaves pause off and the stop flag clear,
\* and a run whose glossary load resolves while neither pause nor stop is
\* requested dispatches its first item in that step.
C22_StartsRunning ==
  [][/\ nRuns' /= nRuns => (~bulkPaused' /\ ~bulkPausedRef' /\ ~stopSignal')
     /\ \A r \in RunIds :
          (pc[r] = "loading" /\ pc'[r] /= "loading" /\ ~bulkPaused /\ ~stopSignal)
            => (pc'[r] = "translating" /\ callLog'[r] = <<queue[r][1]>>)]_vars

\* An earlier run was stopped while it waited in the pause loop, and the run
\* started after it has dispatched its first item without ever waiting.
C22_Witness ==
  \E q, r \in RunIds :
    /\ q < r
    /\ stopPhase[q] = "polling"
    /\ Len(callLog[r]) >= 1
    /\ ~everPolled[r]
    /\ stopPhase[r] = "none"


\* ------------------------------------------------------------------- C23
\* C23 (as claimed): if every pause is followed by a resume or a stop, every
\* run that was started reaches the end of its function (Completed or
\* Stopped).
C23_Terminates ==
  \A r \in RunIds :
    (bulkPaused ~> (~bulkPaused \/ stopSignal))
      => (pc[r] /= "idle" ~> pc[r] = "done")

\* ------------------------------------------------------------------- C24
\* The runs whose loop is still executing.
Executing == {r \in RunIds : pc[r] \in {"loading", "polling", "translating", "saving", "cooldown"}}

\* C24 (as claimed): the dashboard is never marked as translating while no
\* run is executing.
C24_LoadFailureNotFatal == isBulkTranslating => Executing /= {}


\* ------------------------------------------------------------------- C25
\* The chapters in order, as the scan saw them.
ScannedChapters == ChaptersByOrder

\* The chapters at the positions in `positions` of the ordered chapters.
ChaptersAt(positions) == {ScannedChapters[i] : i \in positions}

\* C25 (as claimed): the sample of a scan holds the first three chapters, the
\* middle chapter and the last three chapters, and no chapter twice.
C25_SampleWithoutRepeats ==
  nScans > 0 =>
    /\ {sampleChapters[i] : i \in 1..Len(sampleChapters)} =
         ChaptersAt({i \in 1..Len(ScannedChapters) :
                       \/ i <= SampleEdge
                       \/ i = (Len(ScannedChapters) \div 2) + 1
                       \/ i > Len(ScannedChapters) - SampleEdge})
    /\ \A i, j \in 1..Len(sampleChapters) :
         i /= j => sampleChapters[i] /= sampleChapters[j]

\* ------------------------------------------------------------------- C26
\* C26 (as claimed): when the original of the term being translated does not
\* occur in the combined text, the snippet passed with it is empty.
C26_AbsentTermEmptySnippet ==
  (scanPc = "translatingTerm"
     /\ \A i \in 1..Len(combinedText) :
          combinedText[i] /= uniqueNewTerms[termIdx].original)
    => snippet = <<>>

\* ------------------------------------------------------------------- C27
\* The latest scan has ended.
ScanEnded == nScans > 0 /\ scanPc \in {"closing", "idle"}

\* The k-th term the scan handled got a row whose translation is its
\* original, and every new term got a row.
FallbackInserted(k) ==
  /\ Len(scanInserted) = Len(uniqueNewTerms)
  /\ scanInserted[k].original = uniqueNewTerms[k].original
  /\ scanInserted[k].translation = uniqueNewTerms[k].original

Malformed(resp) ==
  \/ resp.throws
  \/ resp.kind \in {"unparseable", "object"}
  \/ \E i \in 1..Len(resp.terms) :
       resp.terms[i] = NullElement \/ resp.terms[i].original = NumberValue

\* C28 (as claimed): a scan whose extractor threw or answered malformed data
\* ends complete and has inserted nothing.
C28_MalformedIsNoCandidates ==
  (ScanEnded /\ Malformed(extractorResp))
    => (scanInserted = <<>> /\ scanProgress = "Scan Complete!")

\* ------------------------------------------------------------------- C29
\* C29: from the start of a scan on, every row the glossary held then is
\* still there, in its place and with every field as it was.
C29_ScanOnlyInserts ==
  nScans > 0 =>
    /\ Len(glossary) >= Len(glossaryAtScan)
    /\ \A i \in 1..Len(glossaryAtScan) : glossary[i] = glossaryAtScan[i]

\* A scan over a glossary with a locked row has ended after adding two rows.
C29_Witness ==
  /\ ScanEnded
  /\ Len(glossaryAtScan) = 1
  /\ glossaryAtScan[1].isLocked
  /\ Len(scanInserted) = 2
  /\ Len(glossary) = 3

\* ------------------------------------------------------------------- C30
\* a can be had from b by leaving elements out.
RECURSIVE IsSubsequence(_, _)
IsSubsequence(a, b) ==
  IF a = <<>> THEN TRUE
  ELSE IF b = <<>> THEN FALSE
  ELSE IF Head(a) = Head(b) THEN IsSubsequence(Tail(a), Tail(b))
  ELSE IsSubsequence(a, Tail(b))

\* C30: the list of new terms is the candidate list with elements left out,
\* the rest in their order, and none of its originals is empty or missing.
C30_NewTermsAreSubsequence ==
  ScanComputed =>
    /\ IsSubsequence(uniqueNewTerms, rawTerms)
    /\ \A i \in 1..Len(uniqueNewTerms) :
         uniqueNewTerms[i].original \notin {"", Undefined}

\* Of three candidates, one with an empty and one with a missing original
\* among them, the list keeps two different ones.
C30_Witness ==
  /\ ScanComputed
  /\ Len(rawTerms) = 3
  /\ rawTerms[2].original \in {"", Undefined}
  /\ Len(uniqueNewTerms) = 2
  /\ uniqueNewTerms[1].original /= uniqueNewTerms[2].original

\* ------------------------------------------------------------------- C31
\* The labels `Translating terms: k/n`.
TranslatingLabels ==
  {TranslatingLabel(k, n) : k \in 0..MaxCandidates, n \in 0..MaxCandidates}
IsTranslatingLabel(label) == label \in TranslatingLabels

\* The labels that end a scan.
TerminalLabels == {"Scan Complete!", "Scan Failed."}
IsTerminalLabel(label) == label \in TerminalLabels

\* The `Translating terms` labels the latest scan has reported, in order.
TranslatingReports == SelectSeq(scanLog, IsTranslatingLabel)

\* C31: the k-th `Translating terms` label a scan reports is k/M, M being the
\* number of new terms; a scan that has not ended has reported no terminal
\* label, and one that has ended has reported exactly one, as its last label;
\* a scan that ends complete has reported M/M; and when a scan ends failed,
\* the rows it inserted before the failure, one per label reported, are in
\* the glossary after the rows that were there before.
C31_ProgressAndTerminalLabel ==
  /\ \A k \in 1..Len(TranslatingReports) :
       TranslatingReports[k] = TranslatingLabel(k, Len(uniqueNewTerms))
  /\ Len(TranslatingReports) <= Len(uniqueNewTerms)
  /\ (nScans > 0 /\ ~ScanEnded) => SelectSeq(scanLog, IsTerminalLabel) = <<>>
  /\ ScanEnded =>
       /\ Len(SelectSeq(scanLog, IsTerminalLabel)) = 1
       /\ scanLog[Len(scanLog)] = scanProgress
       /\ IsTerminalLabel(scanProgress)
  /\ (ScanEnded /\ scanProgress = "Scan Complete!") =>
       Len(TranslatingReports) = Len(uniqueNewTerms)
  /\ (ScanEnded /\ scanProgress = "Scan Failed.") =>
       /\ glossary = glossaryAtScan \o scanInserted
       /\ Len(scanInserted) = Len(TranslatingReports)

\* A scan of three new terms has ended failed after reporting 1/3 and 2/3,
\* and the two rows are in the glossary.
C31_Witness ==
  /\ ScanEnded
  /\ scanProgress = "Scan Failed."
  /\ Len(uniqueNewTerms) = 3
  /\ TranslatingReports = <<TranslatingLabel(1, 3), TranslatingLabel(2, 3)>>
  /\ Len(scanInserted) = 2
  /\ Len(glossary) = Len(glossaryAtScan) + 2

\* ------------------------------------------------------------------- C33
\* C33: every row a scan has inserted has a translation that is not the
\* empty string.
C33_InsertedTranslationNonEmpty ==
  \A k \in 1..Len(scanInserted) : scanInserted[k].translation /= ""

\* ------------------------------------------------------------------- C34
\* C34: a run writes no chapter for which the Reader (a manual edit or a
\* single-chapter translate) stored a translation while the chapter was
\* waiting in the run's queue, not yet handed to the translator.
C34_RunKeepsReaderTranslation ==
  \A pair \in wroteAhead : pair[2] \notin saved[pair[1]]

\* ------------------------------------------------------------------- C35
\* C35: when every save triggered by the edits has completed, the stored
\* translatedContent of the edited chapter is the value of the latest edit.
C35_SavedIsLatestEdit ==
  (lastEdit.made /\ saveQueue = <<>>) =>
    chapters[lastEdit.id].translatedContent = lastEdit.value

\* ------------------------------------------------------------------- C32
\* C32: every row a deep scan inserted is unlocked, every row added from a
\* selection in the Reader is locked, the rows are in the glossary, and no
\* other row of the glossary is locked.
C32_LockedBySource ==
  /\ \A k \in 1..Len(scanInserted) :
       /\ scanInserted[k].isLocked = FALSE
       /\ \E i \in 1..Len(glossary) : glossary[i] = scanInserted[k]
  /\ \A k \in 1..Len(readerInserted) :
       /\ readerInserted[k].isLocked = TRUE
       /\ \E i \in 1..Len(glossary) : glossary[i] = readerInserted[k]
  /\ \A i \in 1..Len(glossary) :
       glossary[i].isLocked => \E k \in 1..Len(readerInserted) : readerInserted[k] = glossary[i]

\* A scan has inserted two rows and a selection has been added between
\* them.
C32_Witness ==
  /\ Len(scanInserted) = 2
  /\ Len(readerInserted) = 1
  /\ Len(glossary) = 3
  /\ glossary[1] = scanInserted[1]
  /\ glossary[2] = readerInserted[1]
  /\ glossary[3] = scanInserted[2]

\* ------------------------------------------------------------------- C36
\* C36: once the novel has been deleted, the store holds no chapter and no
\* glossary term of it.
C36_DeletedNovelLeavesNothing ==
  novelDeleted => (present = {} /\ glossary = <<>>)

\* ------------------------------------------------------------------- C37
\* The orders of the stored chapters above and below that of chapter c.
OrdersAbove(c) == {chapterOrder[d] : d \in {e \in present : chapterOrder[e] > chapterOrder[c]}}
OrdersBelow(c) == {chapterOrder[d] : d \in {e \in present : chapterOrder[e] < chapterOrder[c]}}

\* A call of handleReaderNavigate has returned.
Navigated == navPc = "idle" /\ navCall.from /= 0

====
